---- MODULE Spec2Model ----
(***************************************************************************)
(* State-machine model of src/app.py: the process-wide data_cache, the     *)
(* request handlers that read and write it (each handler is a sequence of  *)
(* steps, because the server runs handlers on concurrent threads), and the *)
(* background thread that reloads the mutual-fund catalog once a day.      *)
(*                                                                         *)
(* Conventions.  Python values that may be None, a number or a string are  *)
(* tagged tuples: None, Num(n), NA.  Strings that the code inspects        *)
(* (tickers, scheme codes) are sequences of one-character strings.  Prices *)
(* are whole currency units; a value rounded with round(x, 2) that may     *)
(* have decimals (change_percent) is carried in hundredths.  Time is in    *)
(* whole seconds.                                                          *)
(***************************************************************************)
EXTENDS Integers, Sequences, FiniteSets, TLC

----------------------------------------------------------------------------
(* Bounds of the model *)

\* how many times the clock may advance in one behaviour
MaxTicks == 2
\* how many requests arrive in one behaviour
MaxRequests == 2
\* how many of the tickers of get_top_movers are fetched (the first ones of its list)
MaxMovers == 2

----------------------------------------------------------------------------
(* Python values *)

None == <<"None">>
Num(n) == <<"num", n>>
NA == <<"str", "N/A">>
\* a dict or list held where None may be held instead
Some(x) == <<"some", x>>

\* isinstance(x, (int, float))
IsNumber(x) == x[1] = "num"

\* truth value of None or of a number: None and 0 are false
Truthy(x) == IsNumber(x) /\ x[2] # 0

\* `a or b` with the operands taken in the other order
PyOr_SecondFirst(a, b) == IF Truthy(b) THEN b ELSE a

\* the value of the expression `a or b`
PyOr(a, b) == IF Truthy(a) THEN a ELSE b

\* round(n / d, 0) for d > 0: nearest integer, ties to even
RoundDiv(n, d) ==
    LET q == n \div d
        r == n % d
    IN  IF 2 * r < d THEN q
        ELSE IF 2 * r > d THEN q + 1
        ELSE IF q % 2 = 0 THEN q ELSE q + 1

\* Floats.  The inputs of the model are chosen so that every float the code
\* computes from them is a ratio of small integers that a double holds
\* exactly; a float is <<"rat", n, d>> with d > 0 and n/d in lowest terms.
Abs(x) == IF x < 0 THEN -x ELSE x

RECURSIVE GCD(_, _)
GCD(a, b) == IF b = 0 THEN a ELSE GCD(b, a % b)

Rat(n, d) ==
    LET s == IF d < 0 THEN -1 ELSE 1
        g == GCD(Abs(n), Abs(d))
    IN  <<"rat", (s * n) \div g, (s * d) \div g>>

RInt(k) == <<"rat", k, 1>>
RAdd(x, y) == Rat(x[2] * y[3] + y[2] * x[3], x[3] * y[3])
RSub(x, y) == Rat(x[2] * y[3] - y[2] * x[3], x[3] * y[3])
RMul(x, y) == Rat(x[2] * y[2], x[3] * y[3])
\* x / y for y # 0
RDiv(x, y) == Rat(x[2] * y[3], x[3] * y[2])
RIsZero(x) == x[2] = 0

\* x ** k for an int k; for k < 0, x # 0
RECURSIVE RPow(_, _)
RPow(x, k) ==
    IF k = 0 THEN RInt(1)
    ELSE IF k < 0 THEN RPow(Rat(x[3], x[2]), -k)
    ELSE RMul(x, RPow(x, k - 1))

\* round(x, 2), in hundredths
Round2(x) == RoundDiv(x[2] * 100, x[3])

\* numpy floats: a division by zero gives an infinity or nan, never an exception
Inf(sign) == <<"inf", sign>>
NaN == <<"nan">>
IsRat(x) == x[1] = "rat"
IsNaN(x) == x[1] = "nan"
Sign(x) == IF x[2] > 0 THEN 1 ELSE IF x[2] < 0 THEN -1 ELSE 0

XAdd(x, y) ==
    IF IsNaN(x) \/ IsNaN(y) THEN NaN
    ELSE IF IsRat(x) /\ IsRat(y) THEN RAdd(x, y)
    ELSE IF IsRat(x) THEN y
    ELSE IF IsRat(y) THEN x
    ELSE IF x = y THEN x ELSE NaN

XMul(x, y) ==
    IF IsNaN(x) \/ IsNaN(y) THEN NaN
    ELSE IF IsRat(x) /\ IsRat(y) THEN RMul(x, y)
    ELSE IF Sign(x) * Sign(y) = 0 THEN NaN
    ELSE Inf(Sign(x) * Sign(y))

XNeg(x) == IF IsNaN(x) THEN NaN ELSE IF IsRat(x) THEN Rat(-x[2], x[3]) ELSE Inf(-x[2])

\* x / y; a zero is +0.0
XDiv(x, y) ==
    IF IsNaN(x) \/ IsNaN(y) THEN NaN
    ELSE IF IsRat(y) /\ RIsZero(y)
         THEN IF Sign(x) = 0 THEN NaN ELSE Inf(Sign(x))
    ELSE IF IsRat(x) /\ IsRat(y) THEN RDiv(x, y)
    ELSE IF IsRat(x) THEN RInt(0)
    ELSE IF IsRat(y) THEN Inf(Sign(x) * Sign(y))
    ELSE NaN

\* round(x, digits) with scale = 10 ** digits: a number in units of 1/scale,
\* or the infinity or nan itself
XRound(x, scale) == IF IsRat(x) THEN Num(RoundDiv(x[2] * scale, x[3])) ELSE x

\* an exception raised inside a try block, and a value computed without one
Raise(msg) == [ok |-> FALSE, error |-> msg]
Value(v) == [ok |-> TRUE, value |-> v]

----------------------------------------------------------------------------
(* Configuration *)

CACHE_EXPIRY == [stocks |-> 300, mutual_funds |-> 3600, crypto |-> 300, top_movers |-> 300]

\* time.sleep(86400) of the refresh thread
REFRESH_SLEEP == 86400

\* the amounts by which the clock advances: one second and one second short of
\* an expiry time; for the mutual funds also the refresh period
QuoteDelays == {1, 299}
FundDelays == {1, 3599, 86400}

----------------------------------------------------------------------------
(* Identifiers *)

Digits == {"0", "1", "2", "3", "4", "5", "6", "7", "8", "9"}

\* str.isdigit(): non-empty and every character a digit
IsDigit(s) == Len(s) > 0 /\ \A i \in 1..Len(s) : s[i] \in Digits

\* '-' in s
HasHyphen(s) == \E i \in 1..Len(s) : s[i] = "-"

\* s.split('-')[0]: the part before the first hyphen (all of s without one)
BeforeHyphen(s) ==
    IF HasHyphen(s)
    THEN LET i == CHOOSE j \in 1..Len(s) : s[j] = "-" /\ \A k \in 1..(j-1) : s[k] # "-"
         IN  SubSeq(s, 1, i - 1)
    ELSE s

\* sub in s
Contains(s, sub) ==
    \E i \in 0..(Len(s) - Len(sub)) : SubSeq(s, i + 1, i + Len(sub)) = sub

\* f"{symbol}-USD"
CryptoKey(symbol) == symbol \o <<"-", "U", "S", "D">>

DigitVal(ch) ==
    CASE ch = "0" -> 0 [] ch = "1" -> 1 [] ch = "2" -> 2 [] ch = "3" -> 3
      [] ch = "4" -> 4 [] ch = "5" -> 5 [] ch = "6" -> 6 [] ch = "7" -> 7
      [] ch = "8" -> 8 [] ch = "9" -> 9

\* int(s) for a string of digits
RECURSIVE ParseInt(_)
ParseInt(s) ==
    IF Len(s) = 0 THEN 0
    ELSE 10 * ParseInt(SubSeq(s, 1, Len(s) - 1)) + DigitVal(s[Len(s)])

\* the identifiers that requests carry
T_AAPL == <<"A", "A", "P", "L">>
T_TCS_NS == <<"T", "C", "S", ".", "N", "S">>
T_BTC_USD == <<"B", "T", "C", "-", "U", "S", "D">>
T_MM_NS == <<"M", "-", "M", ".", "N", "S">>
T_12 == <<"1", "2">>
T_BTC == <<"B", "T", "C">>

Tickers == {T_AAPL, T_TCS_NS, T_BTC_USD, T_MM_NS, T_12}
Symbols == {T_BTC}
SchemeCodes == {T_12}

\* str.lower(), for the letters that the names of the model have in upper case
LowerChar(ch) ==
    CASE ch = "A" -> "a" [] ch = "B" -> "b" [] ch = "E" -> "e" [] OTHER -> ch

Lower(s) == [i \in 1..Len(s) |-> LowerChar(s[i])]

----------------------------------------------------------------------------
(* Upstream quote provider: what yf.Ticker(t).info may hold *)

MkInfo(cp, rmp, pc, rmpc) ==
    [currentPrice |-> cp, regularMarketPrice |-> rmp,
     previousClose |-> pc, regularMarketPreviousClose |-> rmpc]

\* every source has the pair / only the first / only the second / none has anything
InfoBoth == MkInfo(Num(105), Num(100), Num(100), Num(105))
InfoFirst == MkInfo(Num(105), None, Num(100), None)
InfoSecond == MkInfo(None, Num(105), None, Num(100))
InfoNothing == MkInfo(None, None, None, None)
\* a current price and no previous close / a previous close and no current price
InfoNoPrevious == MkInfo(Num(105), None, None, None)
InfoNoCurrent == MkInfo(None, None, Num(100), None)
\* the current price from one source and the previous close from the other
InfoMixed == MkInfo(Num(105), None, None, Num(100))
\* a previous close of 0: in both sources, in the first source only, and without a price
InfoZeroPrevious == MkInfo(Num(0), Num(105), Num(0), Num(0))
InfoZeroFirst == MkInfo(Num(105), None, Num(0), None)
InfoZeroNoCurrent == MkInfo(None, None, None, Num(0))

Infos ==
    { InfoBoth, InfoFirst, InfoSecond, InfoNothing, InfoNoPrevious, InfoNoCurrent,
      InfoMixed, InfoZeroPrevious, InfoZeroFirst, InfoZeroNoCurrent }

\* the infos of the specifications that are about the cache, not about the prices
FewInfos == { InfoFirst, InfoNoPrevious, InfoZeroPrevious }

\* info.get('currentPrice') or info.get('regularMarketPrice')
ResolveCurrent(info) == PyOr(info.currentPrice, info.regularMarketPrice)

\* info.get('previousClose') or info.get('regularMarketPreviousClose')
ResolvePrevious(info) == PyOr(info.previousClose, info.regularMarketPreviousClose)

\* the change with a previous close of 0 reported as 'N/A' instead of raising
CalcChange_ZeroAsNA(current_price, previous_close) ==
    IF IsNumber(current_price) /\ IsNumber(previous_close) /\ previous_close[2] # 0
    THEN LET change == current_price[2] - previous_close[2]
         IN  [ok |-> TRUE, change |-> Num(change),
              change_percent |-> Num(RoundDiv(change * 10000, previous_close[2]))]
    ELSE [ok |-> TRUE, change |-> NA, change_percent |-> NA]

\* The change of get_stock and get_crypto.  ok = FALSE is the ZeroDivisionError
\* that `change / previous_close` raises for a previous close of 0.
CalcChange(current_price, previous_close) ==
    IF IsNumber(current_price) /\ IsNumber(previous_close)
    THEN IF previous_close[2] = 0
         THEN [ok |-> FALSE, change |-> NA, change_percent |-> NA]
         ELSE LET change == current_price[2] - previous_close[2]
              IN  [ok |-> TRUE, change |-> Num(change),
                   change_percent |-> Num(RoundDiv(change * 10000, previous_close[2]))]
    ELSE [ok |-> TRUE, change |-> NA, change_percent |-> NA]

\* response_data of get_stock / get_crypto (the fields that derive from the quote)
QuoteData(type, info, updated_time) ==
    LET cp == ResolveCurrent(info)
        pc == ResolvePrevious(info)
        ch == CalcChange(cp, pc)
    IN  [type |-> type, current_price |-> cp, previous_close |-> pc,
         change |-> ch.change, change_percent |-> ch.change_percent,
         timestamp |-> updated_time]

----------------------------------------------------------------------------
(* State *)

Clients == {"r1", "r2"}

VARIABLES
    now,          \* datetime.now(), in seconds
    ticks,        \* how many times the clock has advanced
    nreq,         \* how many requests have arrived
    stocks,       \* data_cache['stocks']: ticker -> [data, timestamp]
    crypto,       \* data_cache['crypto']: cache_key -> [data, timestamp]
    top_movers,   \* data_cache['top_movers']: [data, last_updated]
    mfKeys,       \* data_cache['mutual_funds']: its keys, in insertion order
    mfVal,        \* data_cache['mutual_funds']: key -> entry
    cl,           \* per request thread: where it is in its handler, and its locals
    ref,          \* the refresh thread: where it is in refresh_mf_data
    mfDone        \* scheme code -> time at which get_mutual_fund last answered 200 for it

vars == <<now, ticks, nreq, stocks, crypto, top_movers, mfKeys, mfVal, cl, ref, mfDone>>

caches == <<stocks, crypto, top_movers, mfKeys, mfVal>>

NoResp == [status |-> 0, body |-> [none |-> TRUE]]

\* a thread that is serving no request
IdleThread ==
    [pc |-> "idle", route |-> "none", arg |-> <<>>, kind |-> "none",
     par |-> <<>>, calls |-> 0, failed |-> FALSE, info |-> None, upd |-> 0,
     data |-> None, it |-> 0, used |-> 0, acc |-> <<>>,
     nav_history |-> <<>>, nav_df |-> <<>>, resp |-> NoResp]

\* an assignment that leaves the entry of a key that the dict already has
Put_KeepFirst(dict, key, value) ==
    [k \in (DOMAIN dict) \cup {key} |-> IF k \in DOMAIN dict THEN dict[k] ELSE value]

\* dict[key] = value
Put(dict, key, value) ==
    [k \in (DOMAIN dict) \cup {key} |-> IF k = key THEN value ELSE dict[k]]

\* the age compared the wrong way round
Fresh_Reversed(cache, key, ttl, t) ==
    key \in DOMAIN cache /\ t - cache[key].timestamp > ttl

\* an entry exactly as old as the expiry time still counted as fresh
Fresh_Inclusive(cache, key, ttl, t) ==
    key \in DOMAIN cache /\ t - cache[key].timestamp <= ttl

\* `key in cache` and (datetime.now() - cache[key]['timestamp']).total_seconds() < ttl
Fresh(cache, key, ttl, t) ==
    key \in DOMAIN cache /\ t - cache[key].timestamp < ttl

\* return jsonify(body), status: the handler returns
Respond(c, status, body) ==
    cl' = [cl EXCEPT ![c].pc = "done", ![c].resp = [status |-> status, body |-> body]]

\* {"error": str(e)}
ErrorBody(msg) == [error |-> msg]

Init ==
    /\ now = 0
    /\ ticks = 0
    /\ nreq = 0
    /\ stocks = <<>>
    /\ crypto = <<>>
    /\ top_movers = [data |-> None, last_updated |-> None]
    /\ mfKeys = <<>>
    /\ mfVal = <<>>
    /\ cl = [c \in Clients |-> IdleThread]
    /\ ref = [pc |-> "load", funds |-> <<>>, i |-> 0, wake |-> 0, failed |-> FALSE,
              loads |-> 0, sleeps |-> 0]
    /\ mfDone = [s \in SchemeCodes |-> None]

----------------------------------------------------------------------------
(* The clock *)

Tick(delays) ==
    /\ ticks < MaxTicks
    /\ \E d \in delays : now' = now + d
    /\ ticks' = ticks + 1
    /\ UNCHANGED <<nreq, caches, cl, ref, mfDone>>

----------------------------------------------------------------------------
(* Requests arrive: the route decides the handler and its argument *)

Accept(c, route, arg, pc) ==
    /\ cl[c].pc = "idle"
    /\ nreq < MaxRequests
    /\ nreq' = nreq + 1
    /\ cl' = [cl EXCEPT ![c] = [IdleThread EXCEPT !.pc = pc, !.route = route,
                                                  !.arg = arg, !.par = arg]]
    /\ UNCHANGED <<now, ticks, caches, ref, mfDone>>

\* the response has been sent: the thread is free for the next request
Return(c) ==
    /\ cl[c].pc = "done"
    /\ cl' = [cl EXCEPT ![c] = IdleThread]
    /\ UNCHANGED <<now, ticks, nreq, caches, ref, mfDone>>

\* GET /api/security/<ticker>
RouteSecurity(c, tickers) == \E t \in tickers : Accept(c, "security", t, "security")

\* GET /api/crypto/<symbol>
RouteCrypto(c, symbols) == \E s \in symbols : Accept(c, "crypto", s, "crypto_check")

\* GET /api/topmovers
RouteTopMovers(c) == Accept(c, "topmovers", <<>>, "tm_check")

\* GET /api/mf/<scheme_code>
RouteMutualFund(c, codes) == \E s \in codes : Accept(c, "mf", s, "mf_check")

\* GET /api/mf/search?query=
RouteSearch(c, queries) == \E q \in queries : Accept(c, "search", q, "search")

\* GET /api/topfunds/<category>
RouteTopFunds(c, categories) == \E g \in categories : Accept(c, "topfunds", g, "topfunds")

----------------------------------------------------------------------------
(* get_security *)

\* '.NS' in ticker (line 202): the market suffix that the code knows
HasMarketSuffix(ticker) == Contains(ticker, <<".", "N", "S">>)

\* the kind decided as the data model words it: digits, else a market suffix, else crypto
SecurityKind_BySuffix(ticker) ==
    IF IsDigit(ticker) THEN "mutual_fund"
    ELSE IF HasMarketSuffix(ticker) THEN "stock"
    ELSE "crypto"

\* lines 69-75: which handler get_security passes the ticker to
SecurityKind(ticker) ==
    IF HasHyphen(ticker) THEN "crypto"
    ELSE IF IsDigit(ticker) THEN "mutual_fund"
    ELSE "stock"

get_security(c) ==
    /\ cl[c].pc = "security"
    /\ IF Fresh(stocks, cl[c].arg, CACHE_EXPIRY.stocks, now)
       THEN Respond(c, 200, stocks[cl[c].arg].data)
       ELSE LET kind == SecurityKind(cl[c].arg)
            IN  cl' = [cl EXCEPT
                    ![c].kind = kind,
                    ![c].par = IF kind = "crypto" THEN BeforeHyphen(cl[c].arg) ELSE cl[c].arg,
                    ![c].pc = CASE kind = "crypto" -> "crypto_check"
                                [] kind = "mutual_fund" -> "mf_check"
                                [] OTHER -> "stock_fetch"]
    /\ UNCHANGED <<now, ticks, nreq, caches, ref, mfDone>>

----------------------------------------------------------------------------
(* get_stock *)

\* lines 81-252: the upstream calls and the computation of response_data;
\* `except Exception` answers 500 and leaves the cache alone
get_stock_fetch(c, infos) ==
    /\ cl[c].pc = "stock_fetch"
    /\ \/ cl' = [cl EXCEPT ![c].calls = @ + 1, ![c].failed = TRUE, ![c].pc = "done",
                           ![c].resp = [status |-> 500, body |-> ErrorBody("upstream")]]
       \/ \E info \in infos :
            LET ch == CalcChange(ResolveCurrent(info), ResolvePrevious(info))
            IN  IF ch.ok
                THEN cl' = [cl EXCEPT ![c].calls = @ + 1, ![c].info = Some(info),
                                      ![c].upd = now,
                                      ![c].data = QuoteData("stock", info, now),
                                      ![c].pc = "stock_write"]
                ELSE cl' = [cl EXCEPT ![c].calls = @ + 1, ![c].info = Some(info),
                                      ![c].pc = "done",
                                      ![c].resp = [status |-> 500,
                                                   body |-> ErrorBody("division by zero")]]
    /\ UNCHANGED <<now, ticks, nreq, caches, ref, mfDone>>

\* the entry that lines 255-258 and 469-472 store
QuoteEntry(data, updated_time) == [data |-> data, timestamp |-> updated_time]

\* lines 254-260: update the cache, answer
get_stock_write(c) ==
    /\ cl[c].pc = "stock_write"
    /\ stocks' = Put(stocks, cl[c].par, QuoteEntry(cl[c].data, cl[c].upd))
    /\ Respond(c, 200, cl[c].data)
    /\ UNCHANGED <<now, ticks, nreq, crypto, top_movers, mfKeys, mfVal, ref, mfDone>>

----------------------------------------------------------------------------
(* get_crypto *)

\* lines 390-395
get_crypto_check(c) ==
    /\ cl[c].pc = "crypto_check"
    /\ IF Fresh(crypto, CryptoKey(cl[c].par), CACHE_EXPIRY.crypto, now)
       THEN Respond(c, 200, crypto[CryptoKey(cl[c].par)].data)
       ELSE cl' = [cl EXCEPT ![c].pc = "crypto_fetch"]
    /\ UNCHANGED <<now, ticks, nreq, caches, ref, mfDone>>

\* lines 397-466
get_crypto_fetch(c, infos) ==
    /\ cl[c].pc = "crypto_fetch"
    /\ \/ cl' = [cl EXCEPT ![c].calls = @ + 1, ![c].failed = TRUE, ![c].pc = "done",
                           ![c].resp = [status |-> 500, body |-> ErrorBody("upstream")]]
       \/ \E info \in infos :
            LET ch == CalcChange(ResolveCurrent(info), ResolvePrevious(info))
            IN  IF ch.ok
                THEN cl' = [cl EXCEPT ![c].calls = @ + 1, ![c].info = Some(info),
                                      ![c].upd = now,
                                      ![c].data = QuoteData("crypto", info, now),
                                      ![c].pc = "crypto_write"]
                ELSE cl' = [cl EXCEPT ![c].calls = @ + 1, ![c].info = Some(info),
                                      ![c].pc = "done",
                                      ![c].resp = [status |-> 500,
                                                   body |-> ErrorBody("division by zero")]]
    /\ UNCHANGED <<now, ticks, nreq, caches, ref, mfDone>>

\* lines 468-474
get_crypto_write(c) ==
    /\ cl[c].pc = "crypto_write"
    /\ crypto' = Put(crypto, CryptoKey(cl[c].par), QuoteEntry(cl[c].data, cl[c].upd))
    /\ Respond(c, 200, cl[c].data)
    /\ UNCHANGED <<now, ticks, nreq, stocks, top_movers, mfKeys, mfVal, ref, mfDone>>

----------------------------------------------------------------------------

(* get_top_movers *)

INDIAN_TICKERS ==
    <<"RELIANCE.NS", "TCS.NS", "HDFCBANK.NS", "INFY.NS", "ICICIBANK.NS",
      "KOTAKBANK.NS", "HINDUNILVR.NS", "AXISBANK.NS", "SBIN.NS", "BAJFINANCE.NS">>

\* the tickers that the loop of get_top_movers visits
MoverTickers == SubSeq(INDIAN_TICKERS, 1, MaxMovers)

\* what stock.info may hold for one of them
MoverInfos == { InfoFirst, InfoNoPrevious }

\* movers[:5] and movers[-5:]
TOP_N == 5

\* lines 644-660: the entry of one ticker
Mover(ticker, info) ==
    LET current == ResolveCurrent(info)
        previous == ResolvePrevious(info)
    IN  IF Truthy(current) /\ Truthy(previous)
        THEN [symbol |-> ticker, price |-> current,
              change |-> Num(current[2] - previous[2]),
              change_percent |-> Num(RoundDiv((current[2] - previous[2]) * 10000, previous[2]))]
        ELSE [symbol |-> ticker, price |-> current,
              change |-> Num(0), change_percent |-> Num(0)]

\* movers.sort(key=lambda x: x['change_percent'], reverse=True): stable, descending
RECURSIVE SortMovers(_)
SortMovers(s) ==
    IF Len(s) = 0 THEN <<>>
    ELSE LET rest == SortMovers(SubSeq(s, 1, Len(s) - 1))
             x == s[Len(s)]
             k == Cardinality({i \in 1..Len(rest) :
                                  rest[i].change_percent[2] >= x.change_percent[2]})
         IN  SubSeq(rest, 1, k) \o <<x>> \o SubSeq(rest, k + 1, Len(rest))

\* lines 665-676: the value stored under data_cache['top_movers']['data']
MoversData(movers) ==
    LET sorted == SortMovers(movers)
        n == Len(sorted)
    IN  [gainers |-> SubSeq(sorted, 1, IF n < TOP_N THEN n ELSE TOP_N),
         losers |-> SubSeq(sorted, IF n < TOP_N THEN 1 ELSE n - TOP_N + 1, n)]

\* `data and last_updated` and cache_age < CACHE_EXPIRY['top_movers']
MoversFresh(tm, t) ==
    /\ tm.data # None
    /\ tm.last_updated # None
    /\ t - tm.last_updated[2] < CACHE_EXPIRY.top_movers

\* lines 629-633
get_top_movers_check(c) ==
    /\ cl[c].pc = "tm_check"
    /\ IF MoversFresh(top_movers, now)
       THEN Respond(c, 200, top_movers.data[2])
       ELSE cl' = [cl EXCEPT ![c].pc = "tm_fetch", ![c].it = 1, ![c].acc = <<>>]
    /\ UNCHANGED <<now, ticks, nreq, caches, ref, mfDone>>

\* lines 640-663, one round of the loop: a fetch that raises is skipped
get_top_movers_fetch(c) ==
    /\ cl[c].pc = "tm_fetch"
    /\ cl[c].it <= Len(MoverTickers)
    /\ \/ cl' = [cl EXCEPT ![c].calls = @ + 1, ![c].it = @ + 1, ![c].failed = TRUE,
                           ![c].info = None]
       \/ \E info \in MoverInfos :
            cl' = [cl EXCEPT ![c].calls = @ + 1, ![c].it = @ + 1, ![c].info = Some(info),
                             ![c].acc = Append(@, Mover(MoverTickers[cl[c].it], info))]
    /\ UNCHANGED <<now, ticks, nreq, caches, ref, mfDone>>

\* lines 665-676: sort, slice, store the data
get_top_movers_store(c) ==
    /\ cl[c].pc = "tm_fetch"
    /\ cl[c].it > Len(MoverTickers)
    /\ top_movers' = [top_movers EXCEPT !.data = Some(MoversData(cl[c].acc))]
    /\ cl' = [cl EXCEPT ![c].pc = "tm_stamp"]
    /\ UNCHANGED <<now, ticks, nreq, stocks, crypto, mfKeys, mfVal, ref, mfDone>>

\* lines 677-679: store the time, answer with the data now in the cache
get_top_movers_stamp(c) ==
    /\ cl[c].pc = "tm_stamp"
    /\ top_movers' = [top_movers EXCEPT !.last_updated = Num(now)]
    /\ Respond(c, 200, top_movers.data[2])
    /\ UNCHANGED <<now, ticks, nreq, stocks, crypto, mfKeys, mfVal, ref, mfDone>>

----------------------------------------------------------------------------
(* The mutual-fund catalog and its refresh thread *)

\* a key of data_cache['mutual_funds']: an int (a schemeCode of the catalog's
\* JSON) or a str (the scheme_code of a URL); 12 and '12' are different keys
IntKey(n) == <<"int", n>>
StrKey(s) == <<"str", s>>

\* the entries of GET https://api.mfapi.in/mf
MkFund(code, name, category) ==
    [schemeCode |-> code, schemeName |-> name, schemeCategory |-> category]

FundA == MkFund(IntKey(12), <<"A", "x">>, <<"E", "q">>)
FundB == MkFund(IntKey(7), <<"B", "x">>, <<>>)
\* the scheme code as a JSON string
FundS == MkFund(StrKey(T_12), <<"A", "x">>, <<"E", "q">>)
\* an entry without schemeCode
FundBad == MkFund(None, <<"B", "x">>, <<>>)

\* the lists that the catalog provider may answer with
Catalogs == { <<FundA, FundB>>, <<FundS>>, <<FundA, FundBad>> }

\* dict[key] = value on the insertion-ordered dict (keys, val)
MfPutKeys(keys, val, key) == IF key \in DOMAIN val THEN keys ELSE Append(keys, key)

\* lines 39-44: the entry that load_mutual_fund_data stores for a fund
CatalogEntry(fund, t) ==
    [name |-> fund.schemeName, category |-> fund.schemeCategory, type |-> <<>>,
     last_updated |-> t, nav_data |-> None, nav_timestamp |-> None]

\* the exception escapes refresh_mf_data and ends the thread
AfterRefresh_ThreadDies(r, t) ==
    IF r.failed THEN [r EXCEPT !.pc = "dead"]
    ELSE [r EXCEPT !.pc = "sleep", !.wake = t + REFRESH_SLEEP]

\* lines 46-47 and 52-53: load_mutual_fund_data has returned, normally or from
\* its except clause, and refresh_mf_data calls time.sleep(86400)
AfterRefresh(r, t) == [r EXCEPT !.pc = "sleep", !.wake = t + REFRESH_SLEEP]

\* lines 35-37: the catalog request
load_mutual_fund_data(catalogs) ==
    /\ ref.pc = "load"
    /\ \/ ref' = AfterRefresh([ref EXCEPT !.loads = @ + 1, !.failed = TRUE], now)
       \/ ref' = AfterRefresh([ref EXCEPT !.loads = @ + 1, !.failed = FALSE], now)
       \/ \E funds \in catalogs :
            ref' = [ref EXCEPT !.loads = @ + 1, !.failed = FALSE,
                               !.pc = "insert", !.funds = funds, !.i = 1]
    /\ UNCHANGED <<now, ticks, nreq, caches, cl, mfDone>>

\* lines 38-45, one round of the loop; a KeyError ends the load
load_insert ==
    /\ ref.pc = "insert"
    /\ LET fund == ref.funds[ref.i]
           next == IF ref.i = Len(ref.funds)
                   THEN AfterRefresh([ref EXCEPT !.funds = <<>>, !.i = 0], now)
                   ELSE [ref EXCEPT !.i = @ + 1]
       IN  IF fund.schemeCode = None
           THEN /\ ref' = AfterRefresh([ref EXCEPT !.funds = <<>>, !.i = 0, !.failed = TRUE], now)
                /\ UNCHANGED <<mfKeys, mfVal>>
           ELSE /\ mfKeys' = MfPutKeys(mfKeys, mfVal, fund.schemeCode)
                /\ mfVal' = Put(mfVal, fund.schemeCode, CatalogEntry(fund, now))
                /\ ref' = next
    /\ UNCHANGED <<now, ticks, nreq, stocks, crypto, top_movers, cl, mfDone>>

\* line 53: time.sleep(86400) returns
refresh_wake ==
    /\ ref.pc = "sleep"
    /\ now >= ref.wake
    /\ ref' = [ref EXCEPT !.pc = "load", !.sleeps = @ + 1]
    /\ UNCHANGED <<now, ticks, nreq, caches, cl, mfDone>>

----------------------------------------------------------------------------
(* get_mutual_fund *)

\* The entries of GET https://api.mfapi.in/mf/<scheme_code>.  A date is Num(day)
\* when strptime parses its text (the day counted from the day the server
\* started), NA when it does not; a nav is Num(n) when float() parses its text,
\* NA when it does not.  Either is None for a JSON null and Missing for an
\* entry without the key.
MkNav(date, nav) == [date |-> date, nav |-> nav]

Missing == <<"missing">>

NavPayloads == { <<>>, <<MkNav(Num(2), Num(11)), MkNav(Num(1), Num(10))>> }

\* lines 290-291 and 555-556: what the two conversions of an entry do:
\* "ok", or the exception that the first failing one raises
EntryOutcome(entry) ==
    IF entry.date = Missing THEN "KeyError"
    ELSE IF entry.date = None THEN "TypeError"
    ELSE IF ~IsNumber(entry.date) THEN "ValueError"
    ELSE IF entry.nav = Missing THEN "KeyError"
    ELSE IF entry.nav = None THEN "TypeError"
    ELSE IF ~IsNumber(entry.nav) THEN "ValueError"
    ELSE "ok"

\* lines 287-294 and 552-559: the entries whose date and nav parse
RECURSIVE NavValues(_)
NavValues(history) ==
    IF Len(history) = 0 THEN <<>>
    ELSE LET e == history[1]
             rest == NavValues(SubSeq(history, 2, Len(history)))
         IN  IF EntryOutcome(e) = "ok" THEN <<e>> \o rest ELSE rest

\* line 293: `except (ValueError, KeyError): continue` lets a TypeError out of the loop
IngestRaises(history) ==
    \E i \in 1..Len(history) : EntryOutcome(history[i]) = "TypeError"

\* pd.DataFrame(nav_values).sort_values('date'), for dates that are all different
RECURSIVE SortNav(_)
SortNav(nav_values) ==
    IF Len(nav_values) <= 1 THEN nav_values
    ELSE LET i == CHOOSE i \in 1..Len(nav_values) :
                     \A j \in 1..Len(nav_values) :
                         nav_values[i].date[2] <= nav_values[j].date[2]
         IN  <<nav_values[i]>>
             \o SortNav([k \in 1..(Len(nav_values) - 1) |->
                            IF k < i THEN nav_values[k] ELSE nav_values[k + 1]])

\* nav_df.iloc[-1] after sort_values('date'): the entry of the latest date
LatestNav(nav_values) ==
    nav_values[CHOOSE i \in 1..Len(nav_values) :
                  \A j \in 1..Len(nav_values) : nav_values[j].date[2] <= nav_values[i].date[2]]

\* lines 304-311
PERIODS ==
    << [period |-> "1m", days |-> 30], [period |-> "3m", days |-> 90],
       [period |-> "6m", days |-> 180], [period |-> "1y", days |-> 365],
       [period |-> "3y", days |-> 365 * 3], [period |-> "5y", days |-> 365 * 5] >>

\* nav_df['nav'].iloc[-days] of a frame with more than `days` rows (line 316)
PastNav(nav_df, days) == nav_df[Len(nav_df) - days + 1].nav

\* line 317: round(((latest_nav - past_nav) / past_nav) * 100, 2), in hundredths
TrailingReturn(latest_nav, past_nav) ==
    XRound(XMul(XDiv(RInt(latest_nav[2] - past_nav[2]), RInt(past_nav[2])), RInt(100)), 100)

\* lines 313-317: returns, for a frame sorted by date
Returns(nav_df) ==
    LET present == { i \in 1..Len(PERIODS) : Len(nav_df) > PERIODS[i].days }
    IN  [ p \in { PERIODS[i].period : i \in present } |->
            LET i == CHOOSE i \in present : PERIODS[i].period = p
            IN  TrailingReturn(nav_df[Len(nav_df)].nav, PastNav(nav_df, PERIODS[i].days)) ]

\* lines 341-356: response_data (risk_metrics and fund_details are left out:
\* they are computed from the same frame and raise nothing)
FundData(scheme_code, fund_data, nav_values) ==
    [type |-> "mutual_fund", scheme_code |-> scheme_code,
     name |-> fund_data.name, category |-> fund_data.category,
     fund_type |-> fund_data.type,
     latest_nav |-> LatestNav(nav_values).nav,
     returns |-> Returns(SortNav(nav_values)),
     as_of_date |-> LatestNav(nav_values).date]

\* fund_data.get('name', '') and the like of the {} that .get(int(scheme_code), {}) gives
NoFund == [name |-> <<>>, category |-> <<>>, type |-> <<>>]

\* lines 269-272: the entry of the key has nav_data younger than the expiry time
NavFresh(val, key, t) ==
    /\ key \in DOMAIN val
    /\ val[key].nav_timestamp # None
    /\ t - val[key].nav_timestamp[2] < CACHE_EXPIRY.mutual_funds
    /\ val[key].nav_data # None

\* the catalog refresh has loaded the scheme code, as the number or as the text
Loaded(scheme_code, val) ==
    \/ StrKey(scheme_code) \in DOMAIN val
    \/ IsDigit(scheme_code) /\ IntKey(ParseInt(scheme_code)) \in DOMAIN val

\* the record of a get_mutual_fund that answers 200 at time t (mfDone keeps the
\* last one of every scheme code)
Completed(scheme_code, val, t) == Some([at |-> t, loaded |-> Loaded(scheme_code, val)])

\* lines 268-276
get_mutual_fund_check(c) ==
    /\ cl[c].pc = "mf_check"
    /\ IF NavFresh(mfVal, StrKey(cl[c].par), now)
       THEN Respond(c, 200, mfVal[StrKey(cl[c].par)].nav_data[2])
       ELSE IF ~IsDigit(cl[c].par)
       THEN Respond(c, 500, ErrorBody("invalid literal for int()"))
       ELSE LET k == IntKey(ParseInt(cl[c].par))
            IN  cl' = [cl EXCEPT ![c].pc = "mf_fetch",
                                 ![c].acc = IF k \in DOMAIN mfVal
                                            THEN [name |-> mfVal[k].name,
                                                  category |-> mfVal[k].category,
                                                  type |-> mfVal[k].type]
                                            ELSE NoFund]
    /\ UNCHANGED <<now, ticks, nreq, caches, ref, mfDone>>

\* lines 279-356
get_mutual_fund_fetch(c, payloads) ==
    /\ cl[c].pc = "mf_fetch"
    /\ \/ cl' = [cl EXCEPT ![c].calls = @ + 1, ![c].failed = TRUE, ![c].pc = "done",
                           ![c].resp = [status |-> 500, body |-> ErrorBody("upstream")]]
       \/ cl' = [cl EXCEPT ![c].calls = @ + 1, ![c].failed = TRUE, ![c].pc = "done",
                           ![c].resp = [status |-> 404, body |-> ErrorBody("Fund data not found")]]
       \/ \E history \in payloads :
            IF IngestRaises(history)
            THEN cl' = [cl EXCEPT ![c].calls = @ + 1, ![c].pc = "done",
                                  ![c].nav_history = history,
                                  ![c].resp = [status |-> 500,
                                               body |-> ErrorBody("TypeError")]]
            ELSE IF Len(NavValues(history)) = 0
            THEN cl' = [cl EXCEPT ![c].calls = @ + 1, ![c].pc = "done",
                                  ![c].nav_history = history,
                                  ![c].resp = [status |-> 400,
                                               body |-> ErrorBody("No valid NAV data found")]]
            ELSE cl' = [cl EXCEPT ![c].calls = @ + 1, ![c].pc = "mf_store",
                                  ![c].nav_history = history,
                                  ![c].nav_df = SortNav(NavValues(history)),
                                  ![c].data = FundData(cl[c].par, cl[c].acc, NavValues(history))]
    /\ UNCHANGED <<now, ticks, nreq, caches, ref, mfDone>>

\* lines 359-360 (and 363 when the scheme code is no key of the cache)
get_mutual_fund_store(c) ==
    /\ cl[c].pc = "mf_store"
    /\ IF StrKey(cl[c].par) \in DOMAIN mfVal
       THEN /\ mfVal' = [mfVal EXCEPT ![StrKey(cl[c].par)].nav_data = Some(cl[c].data)]
            /\ cl' = [cl EXCEPT ![c].pc = "mf_stamp"]
            /\ UNCHANGED mfDone
       ELSE /\ Respond(c, 200, cl[c].data)
            /\ mfDone' = [mfDone EXCEPT ![cl[c].par] = Completed(cl[c].par, mfVal, now)]
            /\ UNCHANGED mfVal
    /\ UNCHANGED <<now, ticks, nreq, stocks, crypto, top_movers, mfKeys, ref>>

\* lines 361-363
get_mutual_fund_stamp(c) ==
    /\ cl[c].pc = "mf_stamp"
    /\ mfVal' = [mfVal EXCEPT ![StrKey(cl[c].par)].nav_timestamp = Num(now)]
    /\ Respond(c, 200, cl[c].data)
    /\ mfDone' = [mfDone EXCEPT ![cl[c].par] = Completed(cl[c].par, mfVal, now)]
    /\ UNCHANGED <<now, ticks, nreq, stocks, crypto, top_movers, mfKeys, ref>>

----------------------------------------------------------------------------
(* search_mutual_funds and get_top_funds: loops over data_cache['mutual_funds'].items() *)

\* what the loops append for a fund
FundRow(key, fund) == [scheme_code |-> key, name |-> fund.name, category |-> fund.category]

\* re.search(query, name, re.IGNORECASE) for a query without special characters
SearchMatches(query, fund) == Contains(Lower(fund.name), Lower(query))

\* category.lower() in fund['category'].lower()
CategoryMatches(category, fund) == Contains(Lower(fund.category), Lower(category))

\* results[:10] and funds[:5]
Slice(results, n) == SubSeq(results, 1, IF Len(results) < n THEN Len(results) ELSE n)

SEARCH_LIMIT == 10
TOP_FUNDS_LIMIT == 5

\* The next() of a dict iterator that was created when the dict had `used`
\* entries: it raises RuntimeError when the dict has another size now.
IterChanged(keys, used) == Len(keys) # used

\* lines 370-375: an empty query is answered at once; else the iterator is created
search_mutual_funds(c) ==
    /\ cl[c].pc = "search"
    /\ IF Len(cl[c].arg) = 0
       THEN Respond(c, 200, <<>>)
       ELSE cl' = [cl EXCEPT ![c].pc = "search_iter", ![c].used = Len(mfKeys),
                             ![c].it = 1, ![c].acc = <<>>]
    /\ UNCHANGED <<now, ticks, nreq, caches, ref, mfDone>>

\* lines 375-383, one round of the loop; the RuntimeError is not caught: status 500
search_mutual_funds_next(c) ==
    /\ cl[c].pc = "search_iter"
    /\ IF IterChanged(mfKeys, cl[c].used)
       THEN cl' = [cl EXCEPT ![c].pc = "done", ![c].acc = <<>>,
                             ![c].resp = [status |-> 500,
                                          body |-> ErrorBody("dictionary changed size during iteration")]]
       ELSE IF cl[c].it > Len(mfKeys)
       THEN cl' = [cl EXCEPT ![c].pc = "done", ![c].acc = <<>>,
                             ![c].resp = [status |-> 200, body |-> Slice(cl[c].acc, SEARCH_LIMIT)]]
       ELSE LET key == mfKeys[cl[c].it]
            IN  cl' = [cl EXCEPT ![c].it = @ + 1,
                                 ![c].acc = IF SearchMatches(cl[c].arg, mfVal[key])
                                            THEN Append(@, FundRow(key, mfVal[key]))
                                            ELSE @]
    /\ UNCHANGED <<now, ticks, nreq, caches, ref, mfDone>>

\* lines 689-690: the iterator is created
get_top_funds(c) ==
    /\ cl[c].pc = "topfunds"
    /\ cl' = [cl EXCEPT ![c].pc = "topfunds_iter", ![c].used = Len(mfKeys),
                        ![c].it = 1, ![c].acc = <<>>]
    /\ UNCHANGED <<now, ticks, nreq, caches, ref, mfDone>>

\* lines 690-700, one round of the loop; the RuntimeError is caught: status 500
get_top_funds_next(c) ==
    /\ cl[c].pc = "topfunds_iter"
    /\ IF IterChanged(mfKeys, cl[c].used)
       THEN cl' = [cl EXCEPT ![c].pc = "done", ![c].acc = <<>>,
                             ![c].resp = [status |-> 500,
                                          body |-> ErrorBody("dictionary changed size during iteration")]]
       ELSE IF cl[c].it > Len(mfKeys)
       THEN cl' = [cl EXCEPT ![c].pc = "done", ![c].acc = <<>>,
                             ![c].resp = [status |-> 200, body |-> Slice(cl[c].acc, TOP_FUNDS_LIMIT)]]
       ELSE LET key == mfKeys[cl[c].it]
            IN  cl' = [cl EXCEPT ![c].it = @ + 1,
                                 ![c].acc = IF CategoryMatches(cl[c].arg, mfVal[key])
                                            THEN Append(@, FundRow(key, mfVal[key]))
                                            ELSE @]
    /\ UNCHANGED <<now, ticks, nreq, caches, ref, mfDone>>

----------------------------------------------------------------------------
(* calculate_sip and calculate_swp *)

\* float(request.args.get(name, default)) and int(...): a parameter of the
\* query string is Num(n) when its text is a number, NA when it is not
ParamOk(x) == IsNumber(x)

\* lines 486-492: future_value, total_investment and returns, or the exception
SipProjection(amount, years, expected_return) ==
    LET monthly_rate == Rat(expected_return, 1200)
        months == years * 12
        growth == RAdd(RInt(1), monthly_rate)
    IN  IF months < 0 /\ RIsZero(growth)
        THEN Raise("0.0 cannot be raised to a negative power")
        ELSE IF RIsZero(monthly_rate)
        THEN Raise("float division by zero")
        ELSE LET future_value ==
                     RMul(RMul(RInt(amount),
                               RDiv(RSub(RPow(growth, months), RInt(1)), monthly_rate)),
                          growth)
                 total_investment == RInt(amount * months)
             IN  Value([future_value |-> Round2(future_value),
                        total_investment |-> total_investment,
                        returns |-> Round2(RSub(future_value, total_investment)),
                        months |-> months,
                        monthly_investment |-> amount,
                        expected_return |-> expected_return])

\* lines 480-504
calculate_sip(c) ==
    /\ cl[c].pc = "sip"
    /\ LET a == cl[c].arg
       IN  IF ~ParamOk(a.amount) \/ ~ParamOk(a.years) \/ ~ParamOk(a.return)
           THEN Respond(c, 400, ErrorBody("could not convert string to float"))
           ELSE LET r == SipProjection(a.amount[2], a.years[2], a.return[2])
                IN  IF r.ok THEN Respond(c, 200, r.value)
                    ELSE Respond(c, 400, ErrorBody(r.error))
    /\ UNCHANGED <<now, ticks, nreq, caches, ref, mfDone>>

\* lines 516-524 and 526-527.  The balance of the loop is not computed: it is
\* the principal when the loop has no round, no float when the twelfth root
\* is taken of a negative number (a complex number, which round() refuses),
\* and some float otherwise.
SwpProjection(principal, years, expected_return) ==
    LET monthly_rate == Rat(expected_return, 1200)
        months == years * 12
        growth == RAdd(RInt(1), monthly_rate)
    IN  IF months < 0 /\ RIsZero(growth)
        THEN Raise("0.0 cannot be raised to a negative power")
        ELSE IF RIsZero(RSub(RPow(growth, months), RInt(1)))
        THEN Raise("float division by zero")
        ELSE LET monthly_withdrawal ==
                     RDiv(RMul(RMul(RInt(principal), monthly_rate), RPow(growth, months)),
                          RSub(RPow(growth, months), RInt(1)))
             IN  IF expected_return < -100
                 THEN Raise("type complex doesn't define __round__ method")
                 ELSE Value([monthly_withdrawal |-> Round2(monthly_withdrawal),
                             ending_balance |-> IF months <= 0 THEN Num(principal * 100)
                                                ELSE <<"float">>,
                             total_withdrawn |-> Round2(RMul(monthly_withdrawal, RInt(months))),
                             months |-> months,
                             principal |-> principal,
                             expected_return |-> expected_return])

\* lines 508-536
calculate_swp(c) ==
    /\ cl[c].pc = "swp"
    /\ LET a == cl[c].arg
       IN  IF ~ParamOk(a.principal) \/ ~ParamOk(a.years) \/ ~ParamOk(a.rate)
              \/ ~ParamOk(a.return)
           THEN Respond(c, 400, ErrorBody("could not convert string to float"))
           ELSE LET r == SwpProjection(a.principal[2], a.years[2], a.return[2])
                IN  IF r.ok
                    THEN Respond(c, 200, r.value @@ [withdrawal_rate |-> a.rate[2]])
                    ELSE Respond(c, 400, ErrorBody(r.error))
    /\ UNCHANGED <<now, ticks, nreq, caches, ref, mfDone>>

\* the values of the query parameters
Amounts == { Num(-5), Num(0), Num(5), NA }
Years == { Num(-1), Num(0), Num(1), NA }
Rates == { Num(-1200), Num(0), Num(1200) }
WithdrawalRates == { Num(0), Num(8) }

\* GET /api/sip/calculate?amount=&years=&return=
RouteSip(c) ==
    \E a \in Amounts, y \in Years, r \in Rates :
        Accept(c, "sip", [amount |-> a, years |-> y, return |-> r], "sip")

\* GET /api/swp/calculate?principal=&years=&rate=&return=
RouteSwp(c) ==
    \E a \in Amounts, y \in Years, w \in WithdrawalRates, r \in Rates :
        Accept(c, "swp", [principal |-> a, years |-> y, rate |-> w, return |-> r], "swp")

----------------------------------------------------------------------------
(* simulate_sip *)

SECONDS_PER_DAY == 86400
DAYS_PER_YEAR == 365

\* The firsts of the months, as days counted from the day the server started;
\* that day is taken to be 1 January 2024.
MONTH_STARTS == { -365, -334, -306, -275, -245, -214, -184, -153, -122, -92, -61, -31, 0, 31 }

\* line 572: start_date = end_date - timedelta(days=years*365), in seconds
StartDate(end_date, years) == end_date - years * DAYS_PER_YEAR * SECONDS_PER_DAY

\* line 575: nav_df.loc[start_date:end_date]
PeriodNav(nav_df, start_date, end_date) ==
    SelectSeq(nav_df, LAMBDA e : /\ start_date <= e.date[2] * SECONDS_PER_DAY
                                 /\ e.date[2] * SECONDS_PER_DAY <= end_date)

\* line 580: pd.date_range(start=start_date, end=end_date, freq='MS'): the
\* firsts of the months at the time of day of start_date, from start_date to end_date
InvestmentDates(start_date, end_date) ==
    { m * SECONDS_PER_DAY + (start_date % SECONDS_PER_DAY) : m \in MONTH_STARTS }
        \cap (start_date..end_date)

\* lines 586-588: period_nav.index[period_nav.index >= date][0] and its nav;
\* the index is 0 when there is no such row (the IndexError of line 587)
NavRowFrom(period_nav, date) ==
    LET later == { i \in 1..Len(period_nav) : period_nav[i].date[2] * SECONDS_PER_DAY >= date }
    IN  IF later = {} THEN 0 ELSE CHOOSE i \in later : \A j \in later : i <= j

\* lines 584-599: the investments, for the dates in ascending order.  The nav
\* is a numpy float, so units is an infinity or nan for a nav of 0.
RECURSIVE Investments(_, _, _)
Investments(period_nav, dates, monthly_investment) ==
    IF dates = {} THEN <<>>
    ELSE LET date == CHOOSE d \in dates : \A e \in dates : d <= e
             row == NavRowFrom(period_nav, date)
             rest == Investments(period_nav, dates \ {date}, monthly_investment)
         IN  IF row = 0 THEN rest
             ELSE << [date |-> date, nav |-> period_nav[row].nav,
                      units |-> XDiv(RInt(monthly_investment), RInt(period_nav[row].nav[2])),
                      amount |-> monthly_investment] >> \o rest

\* total_units += units
RECURSIVE TotalUnits(_)
TotalUnits(investments) ==
    IF Len(investments) = 0 THEN RInt(0)
    ELSE XAdd(investments[1].units, TotalUnits(SubSeq(investments, 2, Len(investments))))

\* lines 601-621: the response (sums in hundredths, units and nav in ten-thousandths)
Simulation(fund_name, scheme_code, period_nav, investments, monthly_investment) ==
    LET total_units == TotalUnits(investments)
        current_nav == RInt(period_nav[Len(period_nav)].nav[2])
        current_value == XMul(total_units, current_nav)
        total_invested == RInt(Len(investments) * monthly_investment)
        gain == XAdd(current_value, XNeg(total_invested))
        gain_percent == XMul(XDiv(gain, total_invested), RInt(100))
    IN  [fund_name |-> fund_name, scheme_code |-> scheme_code,
         total_invested |-> XRound(total_invested, 100),
         current_value |-> XRound(current_value, 100),
         gain |-> XRound(gain, 100),
         gain_percent |-> XRound(gain_percent, 100),
         total_units |-> XRound(total_units, 10000),
         current_nav |-> XRound(current_nav, 10000),
         monthly_investment |-> monthly_investment,
         investment_count |-> Len(investments)]

\* lines 542-544: the parameters
simulate_sip(c) ==
    /\ cl[c].pc = "sim"
    /\ IF ~ParamOk(cl[c].arg.amount) \/ ~ParamOk(cl[c].arg.years)
       THEN Respond(c, 400, ErrorBody("could not convert string to float"))
       ELSE cl' = [cl EXCEPT ![c].pc = "sim_fetch"]
    /\ UNCHANGED <<now, ticks, nreq, caches, ref, mfDone>>

\* lines 547-565: the NAV history; the bare except of line 558 drops every
\* entry that raises
simulate_sip_fetch(c, payloads) ==
    /\ cl[c].pc = "sim_fetch"
    /\ \/ cl' = [cl EXCEPT ![c].calls = @ + 1, ![c].failed = TRUE, ![c].pc = "done",
                           ![c].resp = [status |-> 400, body |-> ErrorBody("upstream")]]
       \/ cl' = [cl EXCEPT ![c].calls = @ + 1, ![c].failed = TRUE, ![c].pc = "done",
                           ![c].resp = [status |-> 404, body |-> ErrorBody("Fund data not found")]]
       \/ \E history \in payloads :
            IF Len(NavValues(history)) = 0
            THEN cl' = [cl EXCEPT ![c].calls = @ + 1, ![c].pc = "done",
                                  ![c].nav_history = history,
                                  ![c].resp = [status |-> 400,
                                               body |-> ErrorBody("No valid NAV data found")]]
            ELSE cl' = [cl EXCEPT ![c].calls = @ + 1, ![c].pc = "sim_run",
                                  ![c].nav_history = history,
                                  ![c].nav_df = SortNav(NavValues(history))]
    /\ UNCHANGED <<now, ticks, nreq, caches, ref, mfDone>>

\* the name of data_cache['mutual_funds'].get(int(scheme_code), {}).get('name', 'Unknown Fund')
FundName(val, scheme_code) ==
    IF IntKey(ParseInt(scheme_code)) \in DOMAIN val
    THEN val[IntKey(ParseInt(scheme_code))].name
    ELSE <<"U", "n", "k", "n", "o", "w", "n", " ", "F", "u", "n", "d">>

\* lines 568-623
simulate_sip_run(c) ==
    /\ cl[c].pc = "sim_run"
    /\ LET a == cl[c].arg
           start_date == StartDate(now, a.years[2])
           period_nav == PeriodNav(cl[c].nav_df, start_date, now)
           investments == Investments(period_nav, InvestmentDates(start_date, now), a.amount[2])
       IN  IF ~IsDigit(a.scheme_code)
           THEN Respond(c, 400, ErrorBody("invalid literal for int()"))
           ELSE IF Len(period_nav) = 0
           THEN Respond(c, 400, ErrorBody("Insufficient data for simulation"))
           ELSE Respond(c, 200, Simulation(FundName(mfVal, a.scheme_code), a.scheme_code,
                                           period_nav, investments, a.amount[2]))
    /\ UNCHANGED <<now, ticks, nreq, caches, ref, mfDone>>

SimAmounts == { Num(-4), Num(0), Num(4), NA }
SimYears == { Num(-1), Num(0), Num(1) }

\* GET /api/sip/simulate?scheme_code=&amount=&years=
RouteSimulate(c, codes) ==
    \E s \in codes, a \in SimAmounts, y \in SimYears :
        Accept(c, "simulate", [scheme_code |-> s, amount |-> a, years |-> y], "sim")

\* NAV histories with entries that are malformed, zero or negative
MalformedPayloads ==
    { << MkNav(Num(0), Num(4)), MkNav(Num(-31), Num(2)), MkNav(Num(-400), Num(1)) >>,
      << MkNav(Num(0), Num(2)), MkNav(Num(-31), Num(0)) >>,
      << MkNav(Num(-31), Num(-2)) >>,
      << MkNav(Num(0), None), MkNav(Num(-31), Num(2)) >>,
      << MkNav(NA, Num(1)), MkNav(Num(-1), NA), MkNav(Missing, Num(1)), MkNav(Num(-61), Num(4)) >>,
      << MkNav(NA, NA) >> }

\* a NAV history of n days that ends on the day the server started, the
\* latest day first, with a nav that differs from day to day
Series(n) == [i \in 1..n |-> MkNav(Num(1 - i), Num(100 + 2 * (n - i)))]

SeriesLengths == { 1, 30, 31, 32 }

SeriesPayloads == { Series(n) : n \in SeriesLengths }

----------------------------------------------------------------------------
(* Specifications *)

\* the steps of the handlers of quotes, for requests that carry the given
\* identifiers, with the upstream answering one of `infos`
QuoteStep(c, tickers, symbols, infos) ==
    \/ RouteSecurity(c, tickers)
    \/ RouteCrypto(c, symbols)
    \/ get_security(c)
    \/ get_stock_fetch(c, infos)
    \/ get_stock_write(c)
    \/ get_crypto_check(c)
    \/ get_crypto_fetch(c, infos)
    \/ get_crypto_write(c)
    \/ Return(c)

MoversStep(c) ==
    \/ RouteTopMovers(c)
    \/ get_top_movers_check(c)
    \/ get_top_movers_fetch(c)
    \/ get_top_movers_store(c)
    \/ get_top_movers_stamp(c)

\* One request thread serves /api/security for every shape of identifier.
SecurityNext == Tick(QuoteDelays) \/ QuoteStep("r1", Tickers, {}, FewInfos)

SpecSecurity == Init /\ [][SecurityNext]_vars

\* One request thread serves stock and crypto quotes, with every kind of info.
QuotesNext == Tick(QuoteDelays) \/ QuoteStep("r1", {T_AAPL}, Symbols, Infos)

SpecQuotes == Init /\ [][QuotesNext]_vars

\* One request thread serves the three caches that expire after 300 seconds.
CacheNext ==
    \/ Tick(QuoteDelays)
    \/ QuoteStep("r1", {T_AAPL}, Symbols, FewInfos)
    \/ MoversStep("r1")

SpecCache == Init /\ [][CacheNext]_vars

\* Two request threads serve stock and crypto quotes of one key each.
RaceNext ==
    \/ Tick(QuoteDelays)
    \/ \E c \in Clients : QuoteStep(c, {T_AAPL}, Symbols, FewInfos)

SpecRace == Init /\ [][RaceNext]_vars

FundsStep(c, codes, queries, categories) ==
    \/ RouteMutualFund(c, codes)
    \/ RouteSearch(c, queries)
    \/ RouteTopFunds(c, categories)
    \/ get_mutual_fund_check(c)
    \/ get_mutual_fund_fetch(c, NavPayloads)
    \/ get_mutual_fund_store(c)
    \/ get_mutual_fund_stamp(c)
    \/ search_mutual_funds(c)
    \/ search_mutual_funds_next(c)
    \/ get_top_funds(c)
    \/ get_top_funds_next(c)
    \/ Return(c)

\* the refresh thread: refresh_mf_data
RefreshStep(catalogs) ==
    \/ load_mutual_fund_data(catalogs)
    \/ load_insert
    \/ refresh_wake

\* One request thread serves the mutual-fund routes while the refresh thread runs.
FundsNext ==
    \/ Tick(FundDelays)
    \/ RefreshStep(Catalogs)
    \/ FundsStep("r1", SchemeCodes, {<<>>, <<"a">>}, {<<"e", "q">>})

SpecFunds == Init /\ [][FundsNext]_vars

SimulateStep(c, codes, payloads) ==
    \/ RouteSimulate(c, codes)
    \/ simulate_sip(c)
    \/ simulate_sip_fetch(c, payloads)
    \/ simulate_sip_run(c)

CalcStep(c) ==
    \/ RouteSip(c)
    \/ RouteSwp(c)
    \/ calculate_sip(c)
    \/ calculate_swp(c)
    \/ Return(c)

\* One request thread serves the calculators and the simulation.
CalcNext ==
    \/ Tick(QuoteDelays)
    \/ CalcStep("r1")
    \/ SimulateStep("r1", SchemeCodes, MalformedPayloads)

SpecCalc == Init /\ [][CalcNext]_vars

\* get_mutual_fund with the NAV histories given
NavStep(c, codes, payloads) ==
    \/ RouteMutualFund(c, codes)
    \/ get_mutual_fund_check(c)
    \/ get_mutual_fund_fetch(c, payloads)
    \/ get_mutual_fund_store(c)
    \/ get_mutual_fund_stamp(c)
    \/ Return(c)

\* One request thread serves get_mutual_fund and simulate_sip while the
\* refresh thread runs.
NavNext ==
    \/ Tick(FundDelays)
    \/ RefreshStep({<<FundA>>, <<FundS>>})
    \/ NavStep("r1", SchemeCodes, MalformedPayloads)
    \/ SimulateStep("r1", SchemeCodes, MalformedPayloads)

SpecNav == Init /\ [][NavNext]_vars

\* One request thread serves get_mutual_fund for NAV histories of 1 to 32
\* well-formed entries while the refresh thread runs.
SeriesNext ==
    \/ Tick(FundDelays)
    \/ RefreshStep({<<FundA>>, <<FundS>>})
    \/ NavStep("r1", SchemeCodes, SeriesPayloads)

SpecSeries == Init /\ [][SeriesNext]_vars

\* The whole program: every route on every request thread, and the refresh thread.
Next ==
    \/ Tick(QuoteDelays \cup FundDelays)
    \/ RefreshStep(Catalogs)
    \/ \E c \in Clients :
          \/ QuoteStep(c, Tickers, Symbols, Infos)
          \/ MoversStep(c)
          \/ FundsStep(c, SchemeCodes, {<<>>, <<"a">>}, {<<"e", "q">>})
          \/ CalcStep(c)
          \/ SimulateStep(c, SchemeCodes, NavPayloads \cup MalformedPayloads)

Spec == Init /\ [][Next]_vars

----------------------------------------------------------------------------
(* Claims about the caches of stocks, crypto and top movers *)

\* C1: in the stocks, crypto and top_movers domains, a request for a key whose
\* entry exists and is less than 300 seconds old is answered with the stored
\* value, without an upstream call and without a write to any cache.
C1_FreshEntryServedFromCache ==
    [][\A c \in Clients :
        /\ ( /\ cl[c].pc = "security" /\ cl'[c].pc # "security"
             /\ cl[c].arg \in DOMAIN stocks
             /\ now - stocks[cl[c].arg].timestamp < 300 )
           => ( /\ cl'[c].pc = "done"
                /\ cl'[c].resp.status = 200
                /\ cl'[c].resp.body = stocks[cl[c].arg].data
                /\ cl'[c].calls = 0
                /\ UNCHANGED caches )
        /\ ( /\ cl[c].pc = "crypto_check" /\ cl'[c].pc # "crypto_check"
             /\ CryptoKey(cl[c].par) \in DOMAIN crypto
             /\ now - crypto[CryptoKey(cl[c].par)].timestamp < 300 )
           => ( /\ cl'[c].pc = "done"
                /\ cl'[c].resp.status = 200
                /\ cl'[c].resp.body = crypto[CryptoKey(cl[c].par)].data
                /\ cl'[c].calls = 0
                /\ UNCHANGED caches )
        /\ ( /\ cl[c].pc = "tm_check" /\ cl'[c].pc # "tm_check"
             /\ top_movers.data # None /\ top_movers.last_updated # None
             /\ now - top_movers.last_updated[2] < 300 )
           => ( /\ cl'[c].pc = "done"
                /\ cl'[c].resp.status = 200
                /\ cl'[c].resp.body = top_movers.data[2]
                /\ cl'[c].calls = 0
                /\ UNCHANGED caches )
    ]_vars

\* a request of /api/security answered from an entry of the stocks cache that is still fresh
C1_Witness ==
    \E c \in Clients :
        /\ cl[c].pc = "done" /\ cl[c].route = "security"
        /\ cl[c].calls = 0 /\ cl[c].resp.status = 200
        /\ cl[c].arg \in DOMAIN stocks
        /\ now - stocks[cl[c].arg].timestamp = 299
        /\ cl[c].resp.body = stocks[cl[c].arg].data

\* C2: a request for a stocks or crypto key that is missing or at least 300
\* seconds old goes to the upstream computation, exactly once; when that
\* succeeds the request stores the value with the time taken at the computation
\* (overwriting the entry of that key and no other) and answers with the value.
C2_StaleOrMissingRecomputedOnce ==
    [][\A c \in Clients :
        /\ ( /\ cl[c].pc = "security" /\ cl'[c].pc # "security"
             /\ ~HasHyphen(cl[c].arg) /\ ~IsDigit(cl[c].arg)
             /\ ( cl[c].arg \notin DOMAIN stocks
                  \/ now - stocks[cl[c].arg].timestamp >= 300 ) )
           => ( cl'[c].pc = "stock_fetch" /\ cl'[c].calls = 0 /\ UNCHANGED caches )
        /\ ( /\ cl[c].pc = "crypto_check" /\ cl'[c].pc # "crypto_check"
             /\ ( CryptoKey(cl[c].par) \notin DOMAIN crypto
                  \/ now - crypto[CryptoKey(cl[c].par)].timestamp >= 300 ) )
           => ( cl'[c].pc = "crypto_fetch" /\ cl'[c].calls = 0 /\ UNCHANGED caches )
        /\ ( cl[c].pc \in {"stock_fetch", "crypto_fetch"} /\ cl'[c].pc # cl[c].pc )
           => ( /\ cl'[c].calls = 1
                /\ UNCHANGED caches
                /\ cl'[c].pc \in {"stock_write", "crypto_write"} => cl'[c].upd = now )
        /\ ( cl[c].pc = "stock_write" /\ cl'[c].pc # "stock_write" )
           => ( /\ cl[c].calls = 1 /\ cl'[c].calls = 1
                /\ cl[c].upd <= now
                /\ DOMAIN stocks' = DOMAIN stocks \cup {cl[c].par}
                /\ stocks'[cl[c].par] = [data |-> cl[c].data, timestamp |-> cl[c].upd]
                /\ \A k \in DOMAIN stocks : k # cl[c].par => stocks'[k] = stocks[k]
                /\ cl'[c].pc = "done"
                /\ cl'[c].resp.status = 200
                /\ cl'[c].resp.body = cl[c].data )
        /\ ( cl[c].pc = "crypto_write" /\ cl'[c].pc # "crypto_write" )
           => ( /\ cl[c].calls = 1 /\ cl'[c].calls = 1
                /\ cl[c].upd <= now
                /\ DOMAIN crypto' = DOMAIN crypto \cup {CryptoKey(cl[c].par)}
                /\ crypto'[CryptoKey(cl[c].par)] = [data |-> cl[c].data, timestamp |-> cl[c].upd]
                /\ \A k \in DOMAIN crypto : k # CryptoKey(cl[c].par) => crypto'[k] = crypto[k]
                /\ cl'[c].pc = "done"
                /\ cl'[c].resp.status = 200
                /\ cl'[c].resp.body = cl[c].data )
    ]_vars

\* a request has recomputed the value of a stocks key whose entry is exactly 300
\* seconds old, and is about to overwrite it
C2_Witness ==
    \E c \in Clients :
        /\ cl[c].pc = "stock_write" /\ cl[c].calls = 1
        /\ cl[c].par \in DOMAIN stocks
        /\ now - stocks[cl[c].par].timestamp = 300

\* C4 as claimed: once an upstream call of a request has failed, the request
\* changes no cache and ends with an error status.
C4_FailedRecomputeLeavesCache ==
    [][\A c \in Clients :
        ( (cl[c].failed \/ cl'[c].failed) /\ cl[c].pc \notin {"idle", "done"} )
        => ( /\ UNCHANGED caches
             /\ cl'[c].pc = "done" => cl'[c].resp.status >= 400 )
    ]_vars

----------------------------------------------------------------------------
(* Claims about the prices *)

\* a value that `or` keeps: a number other than 0
Usable(x) == IsNumber(x) /\ x[2] # 0

\* C3 (as the specification states it): a get_mutual_fund for a scheme code of
\* the loaded catalog that starts less than 3600 seconds after a successful
\* get_mutual_fund for the same scheme code answers 200 from the cache, without
\* a call to the NAV provider.
C3_SecondRequestWithinTtlFromCache ==
    [][\A c \in Clients :
         ( /\ cl[c].pc = "mf_check" /\ cl'[c] # cl[c]
           /\ mfDone[cl[c].par] # None
           /\ mfDone[cl[c].par][2].loaded
           /\ now - mfDone[cl[c].par][2].at < CACHE_EXPIRY.mutual_funds )
         => ( /\ cl'[c].pc = "done"
              /\ cl'[c].resp.status = 200
              /\ cl'[c].calls = 0 )]_vars

\* C5: the refresh thread never ends: every load attempt, failed or not, goes on
\* (through the insertion of the catalog) into one sleep that ends 86400 seconds
\* after the attempt, and the only step out of that sleep, not before its end,
\* is the next load attempt; so there is one sleep between any two attempts.
C5_RefreshLoopSurvivesFailure ==
    [][ /\ ref'.pc \in {"load", "insert", "sleep"}
        /\ (ref.pc = "load" /\ ref' # ref)
              => ref'.pc \in {"insert", "sleep"} /\ ref'.loads = ref.loads + 1
        /\ (ref.pc = "insert" /\ ref' # ref)
              => ref'.pc \in {"insert", "sleep"} /\ ref'.loads = ref.loads
        /\ (ref.pc # "sleep" /\ ref'.pc = "sleep")
              => ref'.wake = now + 86400
        /\ (ref.pc = "sleep" /\ ref' # ref)
              => /\ ref'.pc = "load" /\ now >= ref.wake
                 /\ ref'.sleeps = ref.sleeps + 1 /\ ref'.loads = ref.loads
        /\ ref'.loads = ref'.sleeps + (IF ref'.pc = "load" THEN 0 ELSE 1) ]_vars

\* a load attempt failed, the thread slept its 86400 seconds and is at the next attempt
C5_Witness ==
    /\ ref.pc = "load" /\ ref.failed
    /\ ref.loads = 1 /\ ref.sleeps = 1
    /\ now >= 86400

\* C6 (as the specification states it): search_mutual_funds and get_top_funds
\* never fail, whatever the refresh thread does between their steps.
C6_ReadersSafeUnderRefresh ==
    \A c \in Clients :
        (cl[c].pc = "done" /\ cl[c].route \in {"search", "topfunds"})
            => cl[c].resp.status = 200

\* C7: each of current price and previous close is taken from the first source
\* unless that yields no usable value (none, or 0), and only then from the
\* second; the change is 'N/A' only when neither source has a usable pair; with
\* nothing usable in the first source and (105, 100) in the second, the change
\* is 5 and the change in percent 5.00.
C7_SourcesInPriorityOrder ==
    \A c \in Clients :
        cl[c].pc \in {"stock_write", "crypto_write"} =>
            LET info == cl[c].info[2]
                d == cl[c].data
            IN  /\ d.current_price = IF Usable(info.currentPrice) THEN info.currentPrice
                                     ELSE info.regularMarketPrice
                /\ d.previous_close = IF Usable(info.previousClose) THEN info.previousClose
                                      ELSE info.regularMarketPreviousClose
                /\ (d.change = NA \/ d.change_percent = NA)
                   => /\ ~(Usable(info.currentPrice) /\ Usable(info.previousClose))
                      /\ ~(Usable(info.regularMarketPrice)
                           /\ Usable(info.regularMarketPreviousClose))
                /\ ( /\ ~Usable(info.currentPrice) /\ ~Usable(info.previousClose)
                     /\ info.regularMarketPrice = Num(105)
                     /\ info.regularMarketPreviousClose = Num(100) )
                   => (d.change = Num(5) /\ d.change_percent = Num(500))

\* the first source has nothing, the second has (105, 100), and the change is 5
C7_Witness ==
    \E c \in Clients :
        /\ cl[c].pc = "stock_write"
        /\ cl[c].info = Some(InfoSecond)
        /\ cl[c].data.change = Num(5)
        /\ cl[c].data.change_percent = Num(500)

\* C8: when the previous close resolves to 0, no answer of get_stock or
\* get_crypto carries a number as change_percent; and when the current price is
\* a number, so that the division is attempted, the request ends with status
\* 500 and the error, without a write to any cache.
C8_ZeroPreviousCloseIsAnError ==
    [][\A c \in Clients :
        ( /\ cl[c].pc \in {"stock_fetch", "crypto_fetch"} /\ cl'[c].pc # cl[c].pc
          /\ cl'[c].info # None
          /\ ResolvePrevious(cl'[c].info[2]) = Num(0) )
        => /\ cl'[c].pc # "done" => ~IsNumber(cl'[c].data.change_percent)
           /\ cl'[c].pc = "done" => cl'[c].resp.status = 500
           /\ IsNumber(ResolveCurrent(cl'[c].info[2]))
              => ( /\ cl'[c].pc = "done"
                   /\ cl'[c].resp = [status |-> 500, body |-> [error |-> "division by zero"]]
                   /\ UNCHANGED caches )
    ]_vars

\* a request whose previous close resolved to 0, with a current price, has ended with status 500
C8_Witness ==
    \E c \in Clients :
        /\ cl[c].pc = "done" /\ cl[c].info # None
        /\ ResolvePrevious(cl[c].info[2]) = Num(0)
        /\ IsNumber(ResolveCurrent(cl[c].info[2]))
        /\ cl[c].resp.status = 500

\* C9 as claimed: when the current price or the previous close is not
\* available, get_stock, get_crypto and get_top_movers report change and
\* change_percent as something that is not a number, and still the current price.
C9_MissingPriceGivesNoNumber ==
    \A c \in Clients :
        /\ cl[c].pc \in {"stock_write", "crypto_write"}
           => ( ( ~IsNumber(ResolveCurrent(cl[c].info[2]))
                  \/ ~IsNumber(ResolvePrevious(cl[c].info[2])) )
                => /\ ~IsNumber(cl[c].data.change)
                   /\ ~IsNumber(cl[c].data.change_percent)
                   /\ cl[c].data.current_price = ResolveCurrent(cl[c].info[2]) )
        /\ ( cl[c].pc = "tm_fetch" /\ cl[c].info # None )
           => ( ( ~IsNumber(ResolveCurrent(cl[c].info[2]))
                  \/ ~IsNumber(ResolvePrevious(cl[c].info[2])) )
                => /\ ~IsNumber(cl[c].acc[Len(cl[c].acc)].change)
                   /\ ~IsNumber(cl[c].acc[Len(cl[c].acc)].change_percent)
                   /\ cl[c].acc[Len(cl[c].acc)].price = ResolveCurrent(cl[c].info[2]) )

----------------------------------------------------------------------------
(* Claims about get_security *)

\* C10 as claimed: digits go to the mutual funds, an identifier with a market
\* suffix goes to the stocks, every other identifier goes to crypto.
C10_KindBySuffix ==
    \A c \in Clients :
        (cl[c].route = "security" /\ cl[c].kind # "none") =>
            cl[c].kind = IF IsDigit(cl[c].arg) THEN "mutual_fund"
                         ELSE IF HasMarketSuffix(cl[c].arg) THEN "stock"
                         ELSE "crypto"

\* C10, amended: a ticker that is not answered from the stocks cache goes to
\* get_crypto, with the part before its first hyphen, when it has a hyphen;
\* otherwise to get_mutual_fund when it is all digits; otherwise to get_stock;
\* and an answer computed for it has the type of that handler.
C10_KindByHyphenThenDigits ==
    [][\A c \in Clients :
        /\ ( /\ cl[c].pc = "security" /\ cl'[c].pc # "security"
             /\ ~( cl[c].arg \in DOMAIN stocks
                   /\ now - stocks[cl[c].arg].timestamp < 300 ) )
           => /\ cl'[c].kind = IF HasHyphen(cl[c].arg) THEN "crypto"
                               ELSE IF IsDigit(cl[c].arg) THEN "mutual_fund"
                               ELSE "stock"
              /\ cl'[c].pc = IF HasHyphen(cl[c].arg) THEN "crypto_check"
                             ELSE IF IsDigit(cl[c].arg) THEN "mf_check"
                             ELSE "stock_fetch"
              /\ cl'[c].par = IF HasHyphen(cl[c].arg) THEN BeforeHyphen(cl[c].arg)
                              ELSE cl[c].arg
        /\ ( /\ cl[c].route = "security" /\ cl[c].pc # "done" /\ cl'[c].pc = "done"
             /\ cl'[c].calls > 0 /\ cl'[c].resp.status = 200 )
           => cl'[c].resp.body.type = cl[c].kind
    ]_vars

\* a ticker with a hyphen and a market suffix has been answered by get_crypto
C10_Witness ==
    \E c \in Clients :
        /\ cl[c].pc = "done" /\ cl[c].arg = T_MM_NS
        /\ cl[c].kind = "crypto" /\ cl[c].par = <<"M">>
        /\ cl[c].resp.status = 200 /\ cl[c].resp.body.type = "crypto"


\* C11 (as the specification states it): calculate_sip with a return of 0 and
\* a positive amount and years answers 200 with future_value = amount * months
\* and returns = 0.
C11_ZeroRateSipIsAmountTimesMonths ==
    \A c \in Clients :
        ( /\ cl[c].pc = "done" /\ cl[c].route = "sip"
          /\ ParamOk(cl[c].arg.amount) /\ ParamOk(cl[c].arg.years)
          /\ cl[c].arg.return = Num(0)
          /\ cl[c].arg.amount[2] > 0 /\ cl[c].arg.years[2] > 0 )
        => ( /\ cl[c].resp.status = 200
             /\ cl[c].resp.body.future_value
                    = 100 * cl[c].arg.amount[2] * cl[c].arg.years[2] * 12
             /\ cl[c].resp.body.returns = 0 )

\* does the request carry a parameter that is a number and not positive?
NonPositive(x) == IsNumber(x) /\ x[2] <= 0

\* C12 (as the specification states it): calculate_sip, calculate_swp and
\* simulate_sip never answer 200 to a request whose amount or principal, years
\* or rate is not positive.
C12_NonPositiveInputRejected ==
    \A c \in Clients :
        ( /\ cl[c].pc = "done" /\ cl[c].route \in {"sip", "swp", "simulate"}
          /\ \E f \in DOMAIN cl[c].arg : NonPositive(cl[c].arg[f]) )
        => cl[c].resp.status # 200

\* the request has computed the response of get_mutual_fund from the frame nav_df
MfComputed(c) ==
    /\ cl[c].route = "mf"
    /\ cl[c].pc \in {"mf_store", "mf_stamp", "done"}
    /\ Len(cl[c].nav_df) > 0

\* C13 (as the specification states it): for each horizon h, returns has the
\* period of h exactly when the sorted series has more than h entries, and
\* then its value is (latest_nav - base) / base * 100, rounded, with base the
\* nav h entries before the latest one.
C13_TrailingReturnFromHEntriesBack ==
    \A c \in Clients :
        MfComputed(c) =>
            \A i \in 1..Len(PERIODS) :
                LET h == PERIODS[i].days
                    series == cl[c].nav_df
                    latest == Len(series)
                    returns == cl[c].data.returns
                IN  /\ h \in {30, 90, 180, 365, 1095, 1825}
                    /\ (PERIODS[i].period \in DOMAIN returns) <=> (Len(series) > h)
                    /\ (Len(series) > h) =>
                          returns[PERIODS[i].period]
                              = Num(RoundDiv((series[latest].nav[2] - series[latest - h].nav[2]) * 10000,
                                             series[latest - h].nav[2]))

\* C14 (as the specification states it): every entry of the series that
\* get_mutual_fund and simulate_sip compute from has a parsed date and a nav
\* above 0, and no request whose upstream call succeeded ends with status 500.
C14_OnlyValidPositiveNavKept ==
    \A c \in Clients :
        cl[c].route \in {"mf", "simulate"} =>
            /\ \A i \in 1..Len(cl[c].nav_df) :
                  /\ IsNumber(cl[c].nav_df[i].date)
                  /\ IsNumber(cl[c].nav_df[i].nav)
                  /\ cl[c].nav_df[i].nav[2] > 0
            /\ (cl[c].pc = "done" /\ Len(cl[c].nav_history) > 0)
                  => cl[c].resp.status # 500

\* both requests are past the freshness check of the same key of `domain`
\* ("stock" or "crypto"), and d has not answered from the cache
PastCheck(c, d, domain) ==
    /\ c # d
    /\ cl[c].par = cl[d].par
    /\ cl[c].pc \in {domain \o "_fetch", domain \o "_write"}
    /\ \/ cl[d].pc \in {domain \o "_fetch", domain \o "_write"}
       \/ cl[d].pc = "done" /\ cl[d].calls = 1

\* C15: when two requests are past the freshness check of the same stocks or
\* crypto key, each of them calls the upstream computation, whatever the other
\* has done, and each that computes a value stores it: the entry of the key
\* after a write is the data and the timestamp of the request that wrote.
\* Every step leaves each stocks and crypto entry as it was or makes it the
\* whole entry of one request.
C15_ConcurrentMissesBothComputeLastWriteWins ==
    [][ /\ \A c, d \in Clients :
            /\ ( PastCheck(c, d, "stock") /\ cl[c].pc = "stock_fetch"
                 /\ cl'[c].pc # "stock_fetch" )
               => ( cl[c].calls = 0 /\ cl'[c].calls = 1 )
            /\ ( PastCheck(c, d, "stock") /\ cl[c].pc = "stock_write"
                 /\ cl'[c].pc # "stock_write" )
               => ( /\ stocks'[cl[c].par] = [data |-> cl[c].data, timestamp |-> cl[c].upd]
                    /\ cl'[c].resp = [status |-> 200, body |-> cl[c].data] )
            /\ ( PastCheck(c, d, "crypto") /\ cl[c].pc = "crypto_fetch"
                 /\ cl'[c].pc # "crypto_fetch" )
               => ( cl[c].calls = 0 /\ cl'[c].calls = 1 )
            /\ ( PastCheck(c, d, "crypto") /\ cl[c].pc = "crypto_write"
                 /\ cl'[c].pc # "crypto_write" )
               => ( /\ crypto'[CryptoKey(cl[c].par)]
                          = [data |-> cl[c].data, timestamp |-> cl[c].upd]
                    /\ cl'[c].resp = [status |-> 200, body |-> cl[c].data] )
        /\ \A k \in DOMAIN stocks' :
            \/ k \in DOMAIN stocks /\ stocks'[k] = stocks[k]
            \/ \E c \in Clients :
                  /\ cl[c].pc = "stock_write" /\ cl'[c].pc = "done" /\ cl[c].par = k
                  /\ stocks'[k] = [data |-> cl[c].data, timestamp |-> cl[c].upd]
        /\ \A k \in DOMAIN crypto' :
            \/ k \in DOMAIN crypto /\ crypto'[k] = crypto[k]
            \/ \E c \in Clients :
                  /\ cl[c].pc = "crypto_write" /\ cl'[c].pc = "done"
                  /\ CryptoKey(cl[c].par) = k
                  /\ crypto'[k] = [data |-> cl[c].data, timestamp |-> cl[c].upd]
      ]_vars

\* two requests for the same ticker have both computed and both written,
\* with different values; c computed before d did and wrote after d did (its
\* entry is the one left), so each passed the freshness check before the
\* other wrote
C15_Witness ==
    \E c, d \in Clients :
        /\ c # d
        /\ cl[c].pc = "done" /\ cl[d].pc = "done"
        /\ cl[c].route = "security" /\ cl[d].route = "security"
        /\ cl[c].arg = T_AAPL /\ cl[d].arg = T_AAPL
        /\ cl[c].calls = 1 /\ cl[d].calls = 1
        /\ cl[c].resp.status = 200 /\ cl[d].resp.status = 200
        /\ cl[c].info # cl[d].info
        /\ cl[c].upd < cl[d].upd
        /\ now - cl[c].upd < 300
        /\ stocks[T_AAPL] = [data |-> cl[c].data, timestamp |-> cl[c].upd]

====
